---- MODULE Spec2Model ----
(***************************************************************************)
(* Model of gemini_agent/agent.py: the polling loop (main), one turn       *)
(* (JarvisBrain.process) with its time-window resolver, relevance scorer,  *)
(* history fetch and parsing, the conversation memory and the platform     *)
(* client.                                                                 *)
(*                                                                         *)
(* Text is a sequence of characters.  A Latin character is the one-letter  *)
(* string itself; a Greek character is the ASCII name of the letter        *)
(* ("chi", "omega_t" for an accented omega, "sigma_f" for a final sigma,   *)
(* upper-case names for capitals), so that substring tests, lower() and    *)
(* split() are computed character by character as Python computes them.    *)
(* Instants are seconds; a datetime is [t |-> instant, tz |-> utc offset]. *)
(***************************************************************************)
EXTENDS Integers, Sequences, FiniteSets, TLC

\* ------------------------------------------------------------------ text

\* The characters of an ASCII literal.
Chars(s) == [i \in 1..Len(s) |-> SubSeq(s, i, i)]

UpperLatin == Chars("ABCDEFGHIJKLMNOPQRSTUVWXYZ")
LowerLatin == Chars("abcdefghijklmnopqrstuvwxyz")

\* Greek capitals and their lower-case letters (str.lower()).
GreekLower ==
    [c \in {"ALPHA", "EPSILON", "CHI", "THETA", "TAU", "PI", "OMEGA_T", "PHI"} |->
        CASE c = "ALPHA"   -> "alpha"
          [] c = "EPSILON" -> "epsilon"
          [] c = "CHI"     -> "chi"
          [] c = "THETA"   -> "theta"
          [] c = "TAU"     -> "tau"
          [] c = "PI"      -> "pi"
          [] c = "OMEGA_T" -> "omega_t"
          [] c = "PHI"     -> "phi"]

LowerChar(c) ==
    IF \E i \in 1..Len(UpperLatin) : UpperLatin[i] = c
    THEN LowerLatin[CHOOSE i \in 1..Len(UpperLatin) : UpperLatin[i] = c]
    ELSE IF c \in DOMAIN GreekLower THEN GreekLower[c] ELSE c

\* str.lower()
Lower(s) == [i \in 1..Len(s) |-> LowerChar(s[i])]

\* Python's `needle in hay` on strings.
Contains(hay, needle) ==
    \E i \in 0..(Len(hay) - Len(needle)) : SubSeq(hay, i + 1, i + Len(needle)) = needle

\* str.startswith
StartsWith(s, prefix) ==
    Len(s) >= Len(prefix) /\ SubSeq(s, 1, Len(prefix)) = prefix

\* str.split(): the maximal runs of non-blank characters, in order.
RECURSIVE SplitFrom(_, _, _)
SplitFrom(s, i, cur) ==
    IF i > Len(s)
    THEN IF cur = <<>> THEN <<>> ELSE <<cur>>
    ELSE IF s[i] = " "
         THEN (IF cur = <<>> THEN <<>> ELSE <<cur>>) \o SplitFrom(s, i + 1, <<>>)
         ELSE SplitFrom(s, i + 1, Append(cur, s[i]))

Split(s) == SplitFrom(s, 1, <<>>)

\* Words joined by single blanks (how the utterances below are written).
RECURSIVE Join(_)
Join(ws) ==
    IF ws = <<>> THEN <<>>
    ELSE IF Len(ws) = 1 THEN ws[1]
    ELSE ws[1] \o <<" ">> \o Join(Tail(ws))

\* ----------------------------------------------------------- Greek words

\* The keywords of _detect_time_intent.
kw_chthes    == <<"chi", "theta", "epsilon", "sigma_f">>                 \* "χθες"
kw_yesterday == Chars("yesterday")
kw_prochthes == <<"pi", "rho", "omicron", "chi", "theta", "epsilon_t", "sigma_f">> \* "προχθές"
kw_ora       == <<"omega_t", "rho", "alpha">>                            \* "ώρα"
kw_teleftaia == <<"tau", "epsilon", "lambda", "epsilon", "upsilon", "tau", "alpha",
                  "iota_t", "alpha">>                                    \* "τελευταία"
kw_last      == Chars("last")

\* Keys of the keywords table of _identify_entities.
kw_thermokras == <<"theta", "epsilon", "rho", "mu", "omicron", "kappa", "rho", "alpha",
                   "sigma">>                                             \* "θερμοκρασ"
kw_thermans   == <<"theta", "epsilon", "rho", "mu", "alpha", "nu", "sigma">>  \* "θερμανσ"
kw_salon      == <<"sigma", "alpha", "lambda", "omicron", "nu">>         \* "σαλον"
kw_domati     == <<"delta", "omega", "mu", "alpha", "tau", "iota">>      \* "δωματι"
kw_fos        == <<"phi", "omega", "sigma_f">>                           \* "φως"
kw_katanalos  == <<"kappa", "alpha", "tau", "alpha", "nu", "alpha", "lambda", "omega",
                   "sigma">>                                             \* "καταναλωσ"

\* ------------------------------------------------------------- datetimes

SecondsPerHour == 3600
SecondsPerDay == 86400

\* datetime - timedelta(hours=h): the same zone, h hours earlier.
MinusHours(dt, h) == [t |-> dt.t - h * SecondsPerHour, tz |-> dt.tz]

\* datetime.astimezone(zone): the same instant seen from another zone.
AsTimezone(dt, zone) == [t |-> dt.t, tz |-> zone]

UtcZone == 0

\* strftime("%H:%M") of a datetime: the wall clock of its zone.
StrfHM(dt) ==
    LET wall == (dt.t + dt.tz) % SecondsPerDay
    IN <<wall \div SecondsPerHour, (wall % SecondsPerHour) \div 60>>

\* HomeAssistantClient.get_local_time
GetLocalTime(instant, zone) == [t |-> instant, tz |-> zone]

\* ---------------------------------------------------- Time-Window Resolver

DefaultLookbackHours == 24
YesterdayHours == 24
DayBeforeHours == 48
LastHourHours == 1

\* JarvisBrain._detect_time_intent: (start_time_utc, mode, start_time).
DetectTimeIntent(text, now_local) ==
    LET lower_input == Lower(text)
        rule ==
            IF Contains(lower_input, kw_chthes) \/ Contains(lower_input, kw_yesterday)
            THEN [start |-> MinusHours(now_local, YesterdayHours), mode |-> "history_point"]
            ELSE IF Contains(lower_input, kw_prochthes)
            THEN [start |-> MinusHours(now_local, DayBeforeHours), mode |-> "history_point"]
            ELSE IF Contains(lower_input, kw_ora)
                    /\ (Contains(lower_input, kw_teleftaia) \/ Contains(lower_input, kw_last))
            THEN [start |-> MinusHours(now_local, LastHourHours), mode |-> "history_range"]
            ELSE [start |-> MinusHours(now_local, DefaultLookbackHours), mode |-> "recent"]
    IN [start_utc |-> AsTimezone(rule.start, UtcZone),
        mode |-> rule.mode,
        start_local |-> rule.start]

\* ------------------------------------------------------- Relevance Scorer

\* The keywords table of _identify_entities, in dict order.
Keywords ==
    << [k |-> kw_thermokras, v |-> <<Chars("temperature"), Chars("climate"), Chars("temp")>>],
       [k |-> kw_thermans,   v |-> <<Chars("climate"), Chars("heating")>>],
       [k |-> kw_salon,      v |-> <<Chars("salon"), Chars("living")>>],
       [k |-> kw_domati,     v |-> <<Chars("room"), Chars("bed"), Chars("child")>>],
       [k |-> kw_fos,        v |-> <<Chars("light")>>],
       [k |-> kw_katanalos,  v |-> <<Chars("energy"), Chars("power"), Chars("cost")>>] >>

RECURSIVE FoundTypesFrom(_, _)
FoundTypesFrom(text, i) ==
    IF i > Len(Keywords) THEN <<>>
    ELSE (IF Contains(Lower(text), Keywords[i].k) THEN Keywords[i].v ELSE <<>>)
         \o FoundTypesFrom(text, i + 1)

\* found_types: the types of every keyword the utterance contains.
FoundTypes(text) == FoundTypesFrom(text, 1)

MinWordLen == 3

\* user_filter_words: the words of the utterance longer than 3 characters.
UserFilterWords(text) ==
    LET IsLong(w) == Len(w) > MinWordLen
    IN SelectSeq(Split(Lower(text)), IsLong)

SeqRange(s) == {s[i] : i \in 1..Len(s)}

\* is_match of one snapshot entry s = [entity_id, device_class, friendly_name].
IsMatch(s, found_types) ==
    LET eid == Lower(s.entity_id)
    IN /\ found_types # <<>>
       /\ \/ \E t \in SeqRange(found_types) : Contains(s.device_class, t) \/ Contains(eid, t)
          \/ StartsWith(eid, Chars("climate."))

\* name_match of one snapshot entry.
NameMatch(s, user_filter_words) ==
    \E w \in SeqRange(user_filter_words) :
        Contains(Lower(s.entity_id), w) \/ Contains(Lower(s.friendly_name), w)

\* Whether the loop body appends s['entity_id'] to relevant.
IsRelevant(s, text) ==
    LET found_types == FoundTypes(text)
        user_filter_words == UserFilterWords(text)
    IN IF found_types # <<>> /\ user_filter_words # <<>>
       THEN IsMatch(s, found_types) /\ NameMatch(s, user_filter_words)
       ELSE IF found_types # <<>> THEN IsMatch(s, found_types)
       ELSE IF user_filter_words # <<>> THEN NameMatch(s, user_filter_words)
       ELSE FALSE

\* relevant, before the limit: the ids of the matching entries, in snapshot order.
Relevant(text, states) ==
    LET Keep(s) == IsRelevant(s, text)
        kept == SelectSeq(states, Keep)
    IN [i \in 1..Len(kept) |-> kept[i].entity_id]

MaxRelevant == 15

Min(a, b) == IF a < b THEN a ELSE b

\* The limit forgotten.
Limit_Missing(relevant) == relevant

\* relevant[:15]
Limit(relevant) == SubSeq(relevant, 1, Min(Len(relevant), MaxRelevant))

\* JarvisBrain._identify_entities, given the result of fetch_all_states.
IdentifyEntities(text, states) == Limit(Relevant(text, states))

\* ---------------------------------------------------------------- inputs

\* Words of the utterances.
w_ti          == <<"tau", "iota">>                                        \* "τι"
w_kanei       == <<"kappa", "alpha_t", "nu", "epsilon", "iota">>          \* "κάνει"
w_to          == <<"tau", "omicron">>                                     \* "το"
w_saloni      == <<"sigma", "alpha", "lambda", "omicron_t", "nu", "iota">> \* "σαλόνι"
w_thermokrasia == kw_thermokras \o <<"iota_t", "alpha">>                  \* "θερμοκρασία"
w_Chthes      == <<"CHI", "theta", "epsilon", "sigma_f">>                 \* "Χθες"

Utterances ==
    { Join(<<w_ti, w_kanei, w_to, w_saloni>>),          \* no temporal keyword, Greek
      Chars("turn off the lights"),                     \* no temporal keyword, English
      Chars("salon temp"),
      Chars("ok"),
      Join(<<w_thermokrasia, kw_chthes>>),              \* "θερμοκρασία χθες"
      Join(<<w_Chthes, Chars("sensor")>>),              \* "Χθες sensor"
      Chars("Yesterday salon"),
      Join(<<kw_prochthes, kw_fos>>),                   \* "προχθές φως"
      Join(<<kw_teleftaia, kw_ora>>),                   \* "τελευταία ώρα"
      Join(<<kw_last, kw_ora, Chars("sensor")>>),       \* "last ώρα sensor"
      Chars("last hour"),
      Chars("climate in the last hour"),
      Join(<<kw_chthes, kw_teleftaia, kw_ora>>),        \* "χθες τελευταία ώρα"
      kw_ora,                                           \* "ώρα"
      kw_fos,                                           \* "φως"
      Chars("update"),
      Chars("device_tracker phone"),
      Chars("sensor") }

\* Snapshot entries by kind; j makes the id unique within a snapshot.
Proto(kind, j) ==
    LET n == Chars(ToString(j))
    IN CASE kind = "light" ->
              [entity_id |-> Chars("light.l") \o n, device_class |-> <<>>,
               friendly_name |-> Chars("Light ") \o n]
         [] kind = "temp" ->
              [entity_id |-> Chars("sensor.salon_temp_") \o n,
               device_class |-> Chars("temperature"),
               friendly_name |-> Chars("Salon Temp ") \o n]
         [] kind = "climate" ->
              [entity_id |-> Chars("climate.heat_") \o n, device_class |-> <<>>,
               friendly_name |-> w_saloni]
         [] kind = "update" ->
              [entity_id |-> Chars("update.core_") \o n, device_class |-> <<>>,
               friendly_name |-> Chars("Core Update")]
         [] kind = "tracker" ->
              [entity_id |-> Chars("device_tracker.phone_") \o n, device_class |-> <<>>,
               friendly_name |-> Chars("Phone sensor")]

Patterns ==
    { <<"light">>,
      <<"temp", "update", "tracker", "climate", "light">>,
      <<"update", "temp">> }

\* The largest snapshot of the scorer's inputs.
MaxEntities == 17

\* The snapshot of n entries whose kinds cycle through pattern p.
Snapshot(n, p) == [i \in 1..n |-> Proto(p[((i - 1) % Len(p)) + 1], i)]

Snapshots == {Snapshot(n, p) : n \in 0..MaxEntities, p \in Patterns}

\* Instants of "now" and utc offsets of the platform's time zone.
Clocks == {200000, 259200}
Zones == {0, 7200}

\* ----------------------------------------------------------------- state

VARIABLES
    pc,             \* position of the program
    timezone,       \* HomeAssistantClient.timezone (utc offset)
    clock,          \* the instant datetime.now() returns
    prompt_value,   \* the state of the prompt entity on the platform
    last_command,   \* main: last_command
    user_input,     \* main: current_command / process: user_input
    memory,         \* rows of the conversation table, by id
    window,         \* process: (start_utc, mode, start_local)
    all_states,     \* _identify_entities: all_states
    entities,       \* process: entities
    raw_history,    \* process: raw_history
    history_text,   \* process: history_text, as its lines
    current_states, \* process: current_states, as its lines
    prompt,         \* process: the parts of prompt
    reply,          \* process's return value / main: reply
    post_calls,     \* the post_event calls main made
    requests,       \* the remote calls of the current turn, with their outcomes
    processed,      \* the commands process was invoked with
    triggered_at,   \* the value of changes at each invocation of process
    changes,        \* how often the prompt entity was changed
    options         \* what /data/options.json holds

vars == <<pc, timezone, clock, prompt_value, last_command, user_input, memory, window,
          all_states, entities, raw_history, history_text, current_states, prompt, reply,
          post_calls, requests, processed, triggered_at, changes, options>>

NoWindow == [start_utc |-> [t |-> 0, tz |-> 0], mode |-> "none",
             start_local |-> [t |-> 0, tz |-> 0]]

\* history_text is a string: the sentinel, or rendered lines joined by newlines.
EmptyText == [sentinel |-> FALSE, lines |-> <<>>]

NoPrompt == [now |-> <<0, 0>>, memory |-> <<>>, history |-> EmptyText, live |-> <<>>,
             question |-> <<>>]

\* What process has not computed yet.
TurnLocalsInit ==
    /\ window = NoWindow
    /\ all_states = <<>>
    /\ entities = <<>>
    /\ raw_history = <<>>
    /\ history_text = EmptyText
    /\ current_states = <<>>
    /\ prompt = NoPrompt
    /\ reply = <<>>
    /\ requests = <<>>

LoopStateInit ==
    /\ prompt_value = <<>>
    /\ last_command = <<>>
    /\ memory = <<>>
    /\ post_calls = <<>>
    /\ processed = <<>>
    /\ triggered_at = <<>>
    /\ changes = 0
    /\ options = "complete"

\* ------------------------------------- the resolver and the scorer alone

InitResolver ==
    /\ pc = "resolver_call"
    /\ timezone \in Zones
    /\ clock \in Clocks
    /\ user_input \in Utterances
    /\ TurnLocalsInit
    /\ LoopStateInit

Resolve ==
    /\ pc = "resolver_call"
    /\ window' = DetectTimeIntent(user_input, GetLocalTime(clock, timezone))
    /\ pc' = "resolver_done"
    /\ UNCHANGED <<timezone, clock, prompt_value, last_command, user_input, memory,
                   all_states, entities, raw_history, history_text, current_states, prompt, reply,
                   post_calls, requests, processed, triggered_at, changes, options>>

SpecResolver == InitResolver /\ [][Resolve]_vars

InitScorer ==
    /\ pc = "scorer_call"
    /\ timezone = 0
    /\ clock = 200000
    /\ user_input \in Utterances
    /\ window = NoWindow
    /\ all_states \in Snapshots
    /\ entities = <<>>
    /\ raw_history = <<>>
    /\ history_text = EmptyText
    /\ current_states = <<>>
    /\ prompt = NoPrompt
    /\ reply = <<>>
    /\ requests = <<>>
    /\ LoopStateInit

Score ==
    /\ pc = "scorer_call"
    /\ entities' = IdentifyEntities(user_input, all_states)
    /\ pc' = "scorer_done"
    /\ UNCHANGED <<timezone, clock, prompt_value, last_command, user_input, memory, window,
                   all_states, raw_history, history_text, current_states, prompt, reply,
                   post_calls, requests, processed, triggered_at, changes, options>>

SpecScorer == InitScorer /\ [][Score]_vars

\* -------------------------------------------------------- platform client

\* What a request can come to: an HTTP response (status, whether the body is JSON,
\* the decoded body) or a transport exception (timeout, connection error).
HttpOk(body)     == [kind |-> "http", status |-> 200, json |-> TRUE, body |-> body]
HttpBadJson      == [kind |-> "http", status |-> 200, json |-> FALSE, body |-> <<>>]
HttpStatus(code) == [kind |-> "http", status |-> code, json |-> TRUE, body |-> <<>>]
TransportError   == [kind |-> "exception", status |-> 0, json |-> FALSE, body |-> <<>>]

\* HomeAssistantClient.fetch_state: the state, or "" on any failure.
FetchState(res) ==
    IF res.kind = "http" /\ res.status = 200 /\ res.json THEN res.body ELSE <<>>

\* HomeAssistantClient.fetch_all_states: the array, or [] on any failure.
FetchAllStates(res) ==
    IF res.kind = "http" /\ res.status = 200 /\ res.json THEN res.body ELSE <<>>

\* The fallback taken on 401 only.
GetHistoryPrimary_No404(res) ==
    IF res.kind = "exception" THEN [next |-> "return", value |-> <<>>]
    ELSE IF res.status = 200
    THEN [next |-> "return", value |-> IF res.json THEN res.body ELSE <<>>]
    ELSE IF res.status = 401
    THEN [next |-> "fallback", value |-> <<>>]
    ELSE [next |-> "return", value |-> <<>>]

\* HomeAssistantClient.get_history, the supervisor request: what the method does
\* with its response (return a value, go on to the internal request, or raise).
GetHistoryPrimary(res) ==
    IF res.kind = "exception" THEN [next |-> "return", value |-> <<>>]
    ELSE IF res.status = 200
    THEN [next |-> "return", value |-> IF res.json THEN res.body ELSE <<>>]
    ELSE IF res.status = 401 \/ res.status = 404
    THEN [next |-> "fallback", value |-> <<>>]
    ELSE [next |-> "return", value |-> <<>>]

\* The internal request made outside the try block.
GetHistoryFallback_Raises(res) ==
    IF res.kind = "exception" THEN [next |-> "raise", value |-> <<>>]
    ELSE IF res.status = 200 /\ res.json
    THEN [next |-> "return", value |-> res.body]
    ELSE [next |-> "return", value |-> <<>>]

\* HomeAssistantClient.get_history, the internal request.
GetHistoryFallback(res) ==
    IF res.kind = "exception" THEN [next |-> "return", value |-> <<>>]
    ELSE IF res.status = 200 /\ res.json
    THEN [next |-> "return", value |-> res.body]
    ELSE [next |-> "return", value |-> <<>>]

\* HomeAssistantClient.post_event: the request is made; an exception is swallowed
\* and the response is not looked at.
PostEvent(res) ==
    IF res.kind = "exception" THEN [next |-> "return"] ELSE [next |-> "return"]

\* ---------------------------------------------------- conversation memory

\* PersistentMemory.add_message
AddMessage(rows, role, content) == Append(rows, [role |-> role, content |-> content])

Reverse(s) == [i \in 1..Len(s) |-> s[Len(s) + 1 - i]]

ContextLimit == 10

\* The rows as the SELECT returns them, newest first.
GetContext_NotReversed(rows, limit) ==
    SubSeq(Reverse(rows), 1, Min(Len(rows), limit))

\* PersistentMemory.get_context: ORDER BY id DESC LIMIT ?, then reversed.
GetContext(rows, limit) ==
    LET desc == Reverse(rows)
    IN Reverse(SubSeq(desc, 1, Min(Len(desc), limit)))

\* --------------------------------------------------- the memory log alone

\* The longest log of the memory's runs.
MaxRows == 12

InitMemory ==
    /\ pc = "memory_call"
    /\ timezone = 0
    /\ clock = 200000
    /\ user_input = <<>>
    /\ TurnLocalsInit
    /\ LoopStateInit

\* add_message(role, content): the content is the number of the call.
StoreTurn ==
    /\ pc \in {"memory_call", "memory_read"}
    /\ Len(memory) < MaxRows
    /\ \E role \in {"user", "assistant"} :
         memory' = AddMessage(memory, role, Chars(ToString(Len(memory) + 1)))
    /\ prompt' = NoPrompt
    /\ pc' = "memory_call"
    /\ UNCHANGED <<timezone, clock, prompt_value, last_command, user_input, window,
                   all_states, entities, raw_history, history_text, current_states, reply,
                   post_calls, requests, processed, triggered_at, changes, options>>

\* process: memory_str, from memory.get_context().
ReadContext ==
    /\ pc = "memory_call"
    /\ prompt' = [prompt EXCEPT !.memory = GetContext(memory, ContextLimit)]
    /\ pc' = "memory_read"
    /\ UNCHANGED <<timezone, clock, prompt_value, last_command, user_input, memory, window,
                   all_states, entities, raw_history, history_text, current_states, reply,
                   post_calls, requests, processed, triggered_at, changes, options>>

NextMemory ==
    \/ StoreTurn
    \/ ReadContext

SpecMemory == InitMemory /\ [][NextMemory]_vars

\* ------------------------------------------------------- history parsing

PointProximity == 3600
MaxHistoryLines == 50

\* mode == "history_point"
IsPointMode(mode) == mode = "history_point"

Abs(x) == IF x < 0 THEN -x ELSE x

\* The band closed at one hour.
InPointBand_Inclusive(ts, start_utc) == Abs(ts.t - start_utc.t) <= PointProximity

\* diff < 3600, diff = abs((ts_dt - target_window_start).total_seconds())
InPointBand(ts, start_utc) == Abs(ts.t - start_utc.t) < PointProximity

\* Whether parser.isoparse and the subtraction succeed on the entry.
Parsable(entry) == entry.last_changed.ok

\* The line one entry is rendered as.
RenderLine(eid, entry, mode, zone) ==
    [fmt |-> IF IsPointMode(mode) THEN "eid at ts: val" ELSE "[ts] eid=val",
     eid |-> eid,
     ts_user |-> StrfHM(AsTimezone(entry.last_changed, zone)),
     val |-> entry.state]

\* The body of the loop over one item's entries: the lines appended for entry.
ParseEntry(eid, entry, win, zone) ==
    IF ~Parsable(entry) THEN <<>>
    ELSE IF IsPointMode(win.mode)
    THEN IF InPointBand(entry.last_changed, win.start_utc)
         THEN <<RenderLine(eid, entry, win.mode, zone)>>
         ELSE <<>>
    ELSE <<RenderLine(eid, entry, win.mode, zone)>>

RECURSIVE ParseItem(_, _, _, _, _)
ParseItem(eid, item, i, win, zone) ==
    IF i > Len(item) THEN <<>>
    ELSE ParseEntry(eid, item[i], win, zone) \o ParseItem(eid, item, i + 1, win, zone)

\* parsed_lines after the loop over raw_history.
RECURSIVE ParsedLines(_, _, _, _)
ParsedLines(raw, i, win, zone) ==
    IF i > Len(raw) THEN <<>>
    ELSE (IF raw[i] = <<>> THEN <<>>
          ELSE ParseItem(raw[i][1].entity_id, raw[i], 1, win, zone))
         \o ParsedLines(raw, i + 1, win, zone)

\* parsed_lines[-50:]
LastLines(lines) ==
    SubSeq(lines, Len(lines) - Min(Len(lines), MaxHistoryLines) + 1, Len(lines))

NoHistoryText == [sentinel |-> TRUE, lines |-> <<>>]

\* The joined lines taken whether or not there are any.
HistoryText_NoDefault(raw, win, zone) ==
    [sentinel |-> FALSE, lines |-> LastLines(ParsedLines(raw, 1, win, zone))]

\* history_text after the `if entities:` block ran on raw.
HistoryText(raw, win, zone) ==
    LET parsed_lines == ParsedLines(raw, 1, win, zone)
    IN IF parsed_lines # <<>>
       THEN [sentinel |-> FALSE, lines |-> LastLines(parsed_lines)]
       ELSE NoHistoryText

\* --------------------------------------------------- the summarizer alone

\* The most records one entity has in the summarizer's fetch results.
MaxRecords == 51

\* The commands whose windows the summarizer is run on: one per mode.
SummarizerCommands ==
    { Chars("ok"), Chars("Yesterday salon"), Join(<<kw_last, kw_ora, Chars("sensor")>>) }

SummarizerEntities == <<Chars("sensor.salon_temp_1"), Chars("light.l2")>>

\* The array of one entity: n records, one a minute from the window start on.
RecordsOf(eid, n, start) ==
    [k \in 1..n |->
        [entity_id |-> eid, state |-> Chars(ToString(k)),
         last_changed |-> [ok |-> TRUE, t |-> start.t + 60 * k, tz |-> UtcZone]]]

\* Fetch results for two entities: a few records of the first, then none, a few or
\* about MaxHistoryLines records of the second.
SummarizerBodies(start) ==
    { <<RecordsOf(SummarizerEntities[1], n1, start),
        RecordsOf(SummarizerEntities[2], n2, start)>> :
          n1 \in 0..3, n2 \in (0..2) \cup ((MaxRecords - 2)..MaxRecords) }

InitSummarizer ==
    /\ pc = "summarizer_call"
    /\ timezone \in Zones
    /\ clock = 200000
    /\ user_input \in SummarizerCommands
    /\ window = DetectTimeIntent(user_input, GetLocalTime(clock, timezone))
    /\ all_states = <<>>
    /\ entities = SummarizerEntities
    /\ raw_history \in SummarizerBodies(window.start_utc)
    /\ history_text = NoHistoryText
    /\ current_states = <<>>
    /\ prompt = NoPrompt
    /\ reply = <<>>
    /\ requests = <<>>
    /\ LoopStateInit

\* process: the loop over raw_history and the assignment of history_text.
Summarize ==
    /\ pc = "summarizer_call"
    /\ history_text' = HistoryText(raw_history, window, timezone)
    /\ pc' = "summarizer_done"
    /\ UNCHANGED <<timezone, clock, prompt_value, last_command, user_input, memory, window,
                   all_states, entities, raw_history, current_states, prompt, reply,
                   post_calls, requests, processed, triggered_at, changes, options>>

SpecSummarizer == InitSummarizer /\ [][Summarize]_vars

\* -------------------------------------------------------------- LLM call

\* response.text.replace("*", "")
RemoveStars(text) ==
    LET NotStar(c) == c # "*"
    IN SelectSeq(text, NotStar)

ErrorReply(e) == Chars("Error generating response: ") \o e

\* The model call made outside the try block.
GenerateReply_Raises(gen, saved, rows) ==
    IF ~gen.ok THEN [next |-> "raise", reply |-> <<>>, memory |-> rows]
    ELSE IF ~saved
    THEN [next |-> "return", reply |-> ErrorReply(Chars("database is locked")),
          memory |-> rows]
    ELSE [next |-> "return", reply |-> RemoveStars(gen.text),
          memory |-> AddMessage(rows, "assistant", RemoveStars(gen.text))]

\* The error string stored as the assistant's turn.
GenerateReply_SavesError(gen, saved, rows) ==
    IF ~gen.ok
    THEN [next |-> "return", reply |-> ErrorReply(gen.text),
          memory |-> AddMessage(rows, "assistant", ErrorReply(gen.text))]
    ELSE IF ~saved
    THEN [next |-> "return", reply |-> ErrorReply(Chars("database is locked")),
          memory |-> rows]
    ELSE [next |-> "return", reply |-> RemoveStars(gen.text),
          memory |-> AddMessage(rows, "assistant", RemoveStars(gen.text))]

\* The try block of process: generate_content, then add_message("assistant").
\* gen is the outcome of the model call, saved whether the INSERT succeeds.
GenerateReply(gen, saved, rows) ==
    IF ~gen.ok THEN [next |-> "return", reply |-> ErrorReply(gen.text), memory |-> rows]
    ELSE IF ~saved
    THEN [next |-> "return", reply |-> ErrorReply(Chars("database is locked")),
          memory |-> rows]
    ELSE [next |-> "return", reply |-> RemoveStars(gen.text),
          memory |-> AddMessage(rows, "assistant", RemoveStars(gen.text))]

\* ------------------------------------------------------------- main loop

\* The comparison with last_command forgotten.
Triggers_NoDebounce(current_command, last) ==
    /\ current_command # <<>>
    /\ current_command \notin {<<>>, Chars("unknown")}

\* The condition under which main processes the polled value.
Triggers(current_command, last) ==
    /\ current_command # <<>>
    /\ current_command # last
    /\ current_command \notin {<<>>, Chars("unknown")}

\* The commands the user writes in the main loop's runs, and the other values the
\* prompt entity takes.
MainCommands ==
    { Chars("Yesterday salon"),
      Join(<<kw_last, kw_ora, Chars("sensor")>>),
      Chars("ok") }

PromptValues == MainCommands \cup {<<>>, Chars("unknown")}

\* The platform's time zone in the main loop's runs (utc offset, seconds).
MainZones == {7200}

\* How often the user changes the prompt entity in a run.
MaxChanges == 1

\* The platform's entities in the main loop's runs.
MainSnapshot == Snapshot(3, <<"temp", "light", "tracker">>)

LiveStates == {Chars("21.5")}

\* Responses to GET /states/{entity_id}.
StateResponses(values) ==
    {HttpOk(v) : v \in values} \cup {HttpStatus(404), TransportError}

\* Responses to GET /states.
AllStatesResponses == {HttpOk(MainSnapshot), HttpStatus(500), TransportError}

HEntry(eid, instant, val) ==
    [entity_id |-> eid, state |-> Chars(val),
     last_changed |-> [ok |-> TRUE, t |-> instant, tz |-> UtcZone]]

HBadEntry(eid, val) ==
    [entity_id |-> eid, state |-> Chars(val),
     last_changed |-> [ok |-> FALSE, t |-> 0, tz |-> UtcZone]]

\* Bodies of GET /history/period/{start}: one array per entity.
HistoryBodies(start, ents) ==
    LET e1 == ents[1]
        e2 == ents[Len(ents)]
        s0 == start.t
    IN { <<>>,
         << << HEntry(e1, s0 - 3600, "19.0"), HEntry(e1, s0 - 3599, "19.1"),
               HEntry(e1, s0 - 2701, "19.2"), HEntry(e1, s0 - 2700, "19.3"),
               HEntry(e1, s0, "19.4"),        HEntry(e1, s0 + 2700, "19.5"),
               HEntry(e1, s0 + 2701, "19.6"), HEntry(e1, s0 + 3599, "19.7"),
               HEntry(e1, s0 + 3600, "19.8"), HEntry(e1, s0 + 7200, "19.9") >>,
            <<>> >>,
         << << HEntry(e1, s0 + 60, "unknown"), HBadEntry(e1, "20.0") >>,
            << HEntry(e2, s0 + 120, "unavailable"), HEntry(e2, s0 + 5400, "20.1") >> >>,
         << << HBadEntry(e1, "20.2") >>, << HEntry(e2, s0 + 4000, "20.3") >> >> }

HistoryResponses(start, ents) ==
    {HttpOk(b) : b \in HistoryBodies(start, ents)}
        \cup {HttpBadJson, HttpStatus(401), HttpStatus(404), HttpStatus(500), TransportError}

\* Outcomes of model.generate_content: a text, or an exception with its message.
ModelOutcomes ==
    { [ok |-> TRUE, text |-> Chars("**21.5** C")],
      [ok |-> FALSE, text |-> Chars("429 quota")] }

\* The outcomes with the key genai.configure was given: without a key every call
\* raises.
ModelOutcomesWith(opts) ==
    IF opts = "no_api_key" THEN {o \in ModelOutcomes : ~o.ok} ELSE ModelOutcomes

\* A remote call of the turn: where it went, what it asked and, for the history
\* requests and the model call, the status it got (0: an exception, no response).
Request(api, op, res) ==
    [api |-> api, op |-> op, status |-> IF op = "history" THEN res.status ELSE 0]

Init ==
    /\ pc = "start"
    /\ timezone \in MainZones
    /\ clock = 200000
    /\ prompt_value \in PromptValues
    /\ user_input = <<>>
    /\ last_command = <<>>
    /\ memory = <<>>
    /\ post_calls = <<>>
    /\ processed = <<>>
    /\ triggered_at = <<>>
    /\ changes = 0
    /\ options = "complete"
    /\ TurnLocalsInit

\* The locals of process are gone when the call ends.
EndTurn ==
    /\ window' = NoWindow
    /\ all_states' = <<>>
    /\ entities' = <<>>
    /\ raw_history' = <<>>
    /\ history_text' = EmptyText
    /\ current_states' = <<>>
    /\ prompt' = NoPrompt
    /\ reply' = <<>>
    /\ requests' = <<>>

turnLocals == <<window, all_states, entities, raw_history, history_text, current_states,
                prompt, reply, requests>>

\* The user (or an automation) writes the prompt entity.  A turn never reads the
\* entity, so a write during a turn is the same write made just after the turn:
\* writes are taken between the passes of the loop.
SetPrompt ==
    /\ pc \in {"start", "poll"}
    /\ changes < MaxChanges
    /\ \E v \in PromptValues \ {prompt_value} : prompt_value' = v
    /\ changes' = changes + 1
    /\ UNCHANGED <<pc, timezone, clock, last_command, user_input, memory, post_calls,
                   processed, triggered_at, options, turnLocals>>

\* main: last_command = ha.fetch_state(prompt_entity)
Startup ==
    /\ pc = "start"
    /\ \E res \in StateResponses({prompt_value}) : last_command' = FetchState(res)
    /\ pc' = "poll"
    /\ UNCHANGED <<timezone, clock, prompt_value, user_input, memory, post_calls,
                   processed, triggered_at, changes, options, turnLocals>>

\* The pass with the assignment of last_command forgotten.
Poll_KeepsLast ==
    /\ pc = "poll"
    /\ \E res \in StateResponses({prompt_value}) :
         LET current_command == FetchState(res)
         IN /\ user_input' = current_command
            /\ IF Triggers(current_command, last_command)
               THEN /\ processed' = Append(processed, current_command)
                    /\ triggered_at' = Append(triggered_at, changes)
                    /\ pc' = "process"
               ELSE UNCHANGED <<processed, triggered_at, pc>>
    /\ UNCHANGED <<last_command, timezone, clock, prompt_value, memory, post_calls,
                   changes, options, turnLocals>>

\* main: one pass of the loop up to the call of brain.process (or to the sleep).
Poll ==
    /\ pc = "poll"
    /\ \E res \in StateResponses({prompt_value}) :
         LET current_command == FetchState(res)
         IN /\ user_input' = current_command
            /\ IF Triggers(current_command, last_command)
               THEN /\ last_command' = current_command
                    /\ processed' = Append(processed, current_command)
                    /\ triggered_at' = Append(triggered_at, changes)
                    /\ pc' = "process"
               ELSE UNCHANGED <<last_command, processed, triggered_at, pc>>
    /\ UNCHANGED <<timezone, clock, prompt_value, memory, post_calls, changes, options,
                   turnLocals>>

\* process: add_message("user"), then _detect_time_intent.  The INSERT may raise.
AddUserMessage ==
    /\ pc = "process"
    /\ \E stored \in BOOLEAN :
         IF stored
         THEN /\ memory' = AddMessage(memory, "user", user_input)
              /\ window' = DetectTimeIntent(user_input, GetLocalTime(clock, timezone))
              /\ pc' = "identify"
         ELSE /\ pc' = "loop_error"
              /\ UNCHANGED <<memory, window>>
    /\ UNCHANGED <<timezone, clock, prompt_value, last_command, user_input, post_calls,
                   processed, triggered_at, changes, options, all_states, entities, raw_history, history_text,
                   current_states, prompt, reply, requests>>

\* process: _identify_entities (with its fetch_all_states), history_text's default.
Identify ==
    /\ pc = "identify"
    /\ \E res \in AllStatesResponses :
         /\ all_states' = FetchAllStates(res)
         /\ entities' = IdentifyEntities(user_input, all_states')
         /\ requests' = Append(requests, Request("supervisor", "states", res))
    /\ history_text' = NoHistoryText
    /\ pc' = IF entities' # <<>> THEN "history" ELSE "live"
    /\ UNCHANGED <<timezone, clock, prompt_value, last_command, user_input, memory, post_calls, processed, triggered_at, changes, options, window, raw_history, current_states, prompt,
                   reply>>

\* What process does with get_history's result.
UseHistory(step) ==
    IF step.next = "return"
    THEN /\ raw_history' = step.value
         /\ history_text' = HistoryText(step.value, window, timezone)
         /\ pc' = "live"
    ELSE /\ pc' = IF step.next = "fallback" THEN "fallback" ELSE "loop_error"
         /\ UNCHANGED <<raw_history, history_text>>

\* get_history: the request to the supervisor.
HistoryPrimary ==
    /\ pc = "history"
    /\ \E res \in HistoryResponses(window.start_utc, entities) :
         /\ requests' = Append(requests, Request("supervisor", "history", res))
         /\ UseHistory(GetHistoryPrimary(res))
    /\ UNCHANGED <<timezone, clock, prompt_value, last_command, user_input, memory, post_calls, processed, triggered_at, changes, options, window, all_states, entities, current_states,
                   prompt, reply>>

\* get_history: the request to the internal address.
HistoryFallback ==
    /\ pc = "fallback"
    /\ \E res \in HistoryResponses(window.start_utc, entities) :
         /\ requests' = Append(requests, Request("internal", "history", res))
         /\ UseHistory(GetHistoryFallback(res))
    /\ UNCHANGED <<timezone, clock, prompt_value, last_command, user_input, memory, post_calls, processed, triggered_at, changes, options, window, all_states, entities, current_states,
                   prompt, reply>>

\* The pass reading the first entity again.
ReadLiveState_ReadsFirst ==
    /\ pc = "live"
    /\ Len(current_states) < Len(entities)
    /\ LET eid == entities[1]
       IN \E res \in StateResponses(LiveStates) :
            /\ current_states' = Append(current_states, [eid |-> eid, state |-> FetchState(res)])
            /\ requests' = Append(requests, Request("supervisor", "state", res))
    /\ UNCHANGED <<pc, timezone, clock, prompt_value, last_command, user_input, memory,
                   post_calls, processed, triggered_at, changes, options, window, all_states,
                   entities, raw_history, history_text, prompt, reply>>

\* process: one pass of the loop over entities (fetch_state of the next one).
ReadLiveState ==
    /\ pc = "live"
    /\ Len(current_states) < Len(entities)
    /\ LET eid == entities[Len(current_states) + 1]
       IN \E res \in StateResponses(LiveStates) :
            /\ current_states' = Append(current_states, [eid |-> eid, state |-> FetchState(res)])
            /\ requests' = Append(requests, Request("supervisor", "state", res))
    /\ UNCHANGED <<pc, timezone, clock, prompt_value, last_command, user_input, memory,
                   post_calls, processed, triggered_at, changes, options, window, all_states, entities,
                   raw_history, history_text, prompt, reply>>

\* process: the prompt, with memory.get_context().  The SELECT may raise.
BuildPrompt ==
    /\ pc = "live"
    /\ Len(current_states) = Len(entities)
    /\ \E read \in BOOLEAN :
         IF read
         THEN /\ prompt' = [now |-> StrfHM(GetLocalTime(clock, timezone)),
                            memory |-> GetContext(memory, ContextLimit),
                            history |-> history_text,
                            live |-> current_states,
                            question |-> user_input]
              /\ pc' = "generate"
         ELSE /\ pc' = "loop_error"
              /\ UNCHANGED prompt
    /\ UNCHANGED <<timezone, clock, prompt_value, last_command, user_input, memory, post_calls, processed, triggered_at, changes, options, window, all_states, entities, raw_history,
                   history_text, current_states, reply, requests>>

\* process: the try block around generate_content and add_message("assistant").
CallModel ==
    /\ pc = "generate"
    /\ \E gen \in ModelOutcomesWith(options), saved \in BOOLEAN :
         LET step == GenerateReply(gen, saved, memory)
         IN /\ reply' = step.reply
            /\ memory' = step.memory
            /\ pc' = IF step.next = "return" THEN "post" ELSE "loop_error"
            /\ requests' = Append(requests,
                   [api |-> "gemini", op |-> "generate_content",
                    status |-> IF gen.ok THEN 200 ELSE 0])
    /\ UNCHANGED <<timezone, clock, prompt_value, last_command, user_input, post_calls,
                   processed, triggered_at, changes, options, window, all_states, entities, raw_history,
                   history_text, current_states, prompt>>

\* main: ha.post_event("jarvis_response", {"text": reply}), then the sleep.
Post ==
    /\ pc = "post"
    /\ post_calls' = Append(post_calls, [event_type |-> "jarvis_response", text |-> reply])
    /\ \E res \in {HttpStatus(200), HttpStatus(401), TransportError} :
         pc' = IF PostEvent(res).next = "return" THEN "poll" ELSE "loop_error"
    /\ EndTurn
    /\ UNCHANGED <<timezone, clock, prompt_value, last_command, user_input, memory, processed, triggered_at,
                   changes, options>>

\* main: the except branch of the loop ("Loop Error"), then the sleeps.
LoopError ==
    /\ pc = "loop_error"
    /\ pc' = "poll"
    /\ EndTurn
    /\ UNCHANGED <<timezone, clock, prompt_value, last_command, user_input, memory, post_calls, processed, triggered_at, changes, options>>

Next ==
    \/ SetPrompt
    \/ Startup
    \/ Poll
    \/ AddUserMessage
    \/ Identify
    \/ HistoryPrimary
    \/ HistoryFallback
    \/ ReadLiveState
    \/ BuildPrompt
    \/ CallModel
    \/ Post
    \/ LoopError

Spec == Init /\ [][Next]_vars

\* ------------------------------------------------- main from its first line

\* What /data/options.json can hold when the add-on starts.
OptionsFiles == {"unreadable", "no_api_key", "complete"}

InitStartup ==
    /\ pc = "load_config"
    /\ options \in OptionsFiles
    /\ timezone \in MainZones
    /\ clock = 200000
    /\ prompt_value \in PromptValues
    /\ user_input = <<>>
    /\ last_command = <<>>
    /\ memory = <<>>
    /\ post_calls = <<>>
    /\ processed = <<>>
    /\ triggered_at = <<>>
    /\ changes = 0
    /\ TurnLocalsInit

\* main: the try block around json.load and options.get, then genai.configure and
\* the constructors.  A file that cannot be read or parsed ends in exit(1); so does
\* a constructor that raises (sqlite3.connect), by the uncaught exception.
LoadConfig ==
    /\ pc = "load_config"
    /\ \E constructed \in BOOLEAN :
         pc' = IF options = "unreadable" \/ ~constructed THEN "exit_1" ELSE "start"
    /\ UNCHANGED <<timezone, clock, prompt_value, last_command, user_input, memory,
                   post_calls, processed, triggered_at, changes, options, turnLocals>>

NextStartup ==
    \/ LoadConfig
    \/ Next

SpecStartup == InitStartup /\ [][NextStartup]_vars

\* ================================================================ claims

Last(s) == s[Len(s)]

\* The history requests of the current turn, in order.
HistoryRequests ==
    LET IsHistory(r) == r.op = "history"
    IN SelectSeq(requests, IsHistory)

\* The turn is past get_history.
PastHistory == pc \in {"live", "generate", "post"}

ErrorPrefix == Chars("Error generating response: ")

\* ---- C1
\* C1: process is invoked on a pass of the loop only when the polled value is not
\* empty, not "unknown" and differs from last_command; polling again the value that
\* triggered last never invokes process again.
C1_TriggerOnlyOnChange ==
    [][processed' # processed =>
          /\ pc = "poll" /\ pc' = "process"
          /\ processed' = Append(processed, user_input')
          /\ user_input' # <<>>
          /\ user_input' # Chars("unknown")
          /\ user_input' # last_command
          /\ (processed # <<>> => user_input' # Last(processed))]_vars

\* A command was processed and the loop polls the same value again.
C1_Witness ==
    /\ pc = "poll"
    /\ processed # <<>>
    /\ post_calls # <<>>
    /\ prompt_value = Last(processed)
    /\ last_command = prompt_value

\* ---- C2
\* C2: every triggered command is answered: when the loop is back at its poll, one
\* jarvis_response was sent for each command process was invoked with.
C2_EveryTriggerAnswered ==
    pc = "poll" => Len(post_calls) = Len(processed)

\* ---- C3
\* C3: when the supervisor history request gets 401 or 404, the internal request is
\* made exactly once; if that one fails too (no response or a status other than 200)
\* get_history returns [] without raising and history_text is the sentinel, which
\* is what the prompt gets.
C3_FallbackOnceThenSentinel ==
    LET h == HistoryRequests
    IN /\ (h # <<>> /\ h[1].status \in {401, 404}) =>
            /\ pc # "history"
            /\ pc = "fallback" => Len(h) = 1
            /\ pc # "fallback" =>
                 /\ Len(h) = 2
                 /\ h[1].api = "supervisor"
                 /\ h[2].api = "internal"
                 /\ Last(requests).op = "history" => pc # "loop_error"
            /\ (PastHistory /\ h[2].status # 200) =>
                 /\ raw_history = <<>>
                 /\ history_text = NoHistoryText
            /\ (pc \in {"generate", "post"} /\ h[2].status # 200) =>
                 prompt.history = NoHistoryText
       /\ (h # <<>> /\ h[1].status \notin {401, 404}) => Len(h) = 1

\* The supervisor answered 404, the internal address failed, and the prompt was built.
C3_Witness ==
    /\ pc = "generate"
    /\ Len(HistoryRequests) = 2
    /\ HistoryRequests[1].status = 404
    /\ HistoryRequests[2].status = 500
    /\ prompt.history = NoHistoryText

\* ---- C4
\* C4: get_history never raises: when its last request got no response (timeout,
\* connection error) or a status outside 2xx, it returns [], and the turn goes on
\* to the model call with the no-history sentinel in the prompt.
C4_HistoryNeverRaises ==
    LET h == HistoryRequests
        failed == h # <<>> /\ (Last(h).status = 0 \/ Last(h).status >= 300)
    IN /\ (requests # <<>> /\ Last(requests).op = "history") =>
            pc \in {"fallback", "live"}
       /\ (PastHistory /\ failed) =>
            /\ raw_history = <<>>
            /\ history_text = NoHistoryText
       /\ (pc \in {"generate", "post"} /\ failed) => prompt.history = NoHistoryText

\* The only history request timed out and the turn reached the model call.
C4_Witness ==
    /\ pc = "generate"
    /\ Len(HistoryRequests) = 1
    /\ HistoryRequests[1].status = 0
    /\ entities # <<>>
    /\ prompt.history = NoHistoryText

\* ---- C5
\* C5: when the model call fails, process does not raise: it returns an error
\* string, and main sends that string as a jarvis_response event.
ModelCallFailed ==
    /\ requests # <<>>
    /\ Last(requests).api = "gemini"
    /\ Last(requests).status = 0

C5_ModelFailureIsPublished ==
    [][/\ (pc = "generate" /\ ModelCallFailed') =>
            /\ pc' = "post"
            /\ StartsWith(reply', ErrorPrefix)
            /\ memory' = memory
       /\ (pc = "post" /\ ModelCallFailed /\ pc' # "post") =>
            /\ pc' = "poll"
            /\ post_calls' = Append(post_calls,
                                    [event_type |-> "jarvis_response", text |-> reply])]_vars

\* The error string of a failed model call was sent.
C5_Witness ==
    /\ pc = "poll"
    /\ post_calls # <<>>
    /\ Last(post_calls) = [event_type |-> "jarvis_response",
                           text |-> ErrorReply(Chars("429 quota"))]

\* ---- C6
\* The temporal markers: those the resolver tests and the English ones of the
\* resolver's rule list.
TemporalKeywords ==
    {kw_chthes, kw_yesterday, kw_prochthes, kw_ora, kw_teleftaia, kw_last,
     Chars("hour"), Chars("week"), Chars("month"), Chars("day")}

HasTemporalKeyword(text) ==
    \E k \in TemporalKeywords : Contains(Lower(text), k)

\* C6: for an utterance with no temporal keyword the resolver returns the default
\* window: start = now - 24 hours, in POINT mode (the mode in which records are
\* filtered to the band around the start).
C6_DefaultWindowIsPoint ==
    (pc = "resolver_done" /\ ~HasTemporalKeyword(user_input)) =>
        /\ window.start_utc.t = clock - 24 * SecondsPerHour
        /\ IsPointMode(window.mode)

\* ---- C7
\* C7: for an utterance containing "last hour" the resolver returns RANGE mode with
\* a start between now - 2 hours and now - 1 hour.
C7_LastHourIsRange ==
    (pc = "resolver_done" /\ Contains(Lower(user_input), Chars("last hour"))) =>
        /\ window.mode = "history_range"
        /\ window.start_utc.t >= clock - 2 * SecondsPerHour
        /\ window.start_utc.t <= clock - 1 * SecondsPerHour

\* ---- C8
\* The parsable records of the fetch result, each with the id its lines carry.
HistoryRecords ==
    UNION {{[eid |-> raw_history[i][1].entity_id, entry |-> raw_history[i][j]] :
               j \in 1..Len(raw_history[i])} : i \in 1..Len(raw_history)}

\* The record is rendered in the history text.
Rendered(r) ==
    /\ Parsable(r.entry)
    /\ \E k \in 1..Len(history_text.lines) :
         history_text.lines[k] = RenderLine(r.eid, r.entry, window.mode, timezone)

Distance(r) == Abs(r.entry.last_changed.t - window.start_utc.t)

InSnapshotOrder(ids, states) ==
    LET Pos(id) == CHOOSE i \in 1..Len(states) : states[i].entity_id = id
    IN /\ \A i \in 1..Len(ids) : \E k \in 1..Len(states) : states[k].entity_id = ids[i]
       /\ \A i, j \in 1..Len(ids) : i < j => Pos(ids[i]) < Pos(ids[j])

\* C9: _identify_entities returns at most 15 ids, in snapshot iteration order.
C9_AtMostKInOrder ==
    pc = "scorer_done" =>
        /\ Len(entities) <= 15
        /\ InSnapshotOrder(entities, all_states)

\* More than 15 entries matched and the result was cut.
C9_Witness ==
    /\ pc = "scorer_done"
    /\ Len(entities) = 15
    /\ \E i \in 1..Len(all_states) :
         /\ IsRelevant(all_states[i], user_input)
         /\ \A k \in 1..Len(entities) : entities[k] # all_states[i].entity_id

\* ---- C10
\* C10: _identify_entities never returns an id containing "update" or
\* "device_tracker".
C10_NoNoiseDomains ==
    pc = "scorer_done" =>
        \A i \in 1..Len(entities) :
            /\ ~Contains(Lower(entities[i]), Chars("update"))
            /\ ~Contains(Lower(entities[i]), Chars("device_tracker"))

\* ---- C11
\* The record passes the summarizer's tests: its timestamp parses and, in POINT
\* mode, lies in the band around the window start.
Kept(r) ==
    /\ Parsable(r.entry)
    /\ IsPointMode(window.mode) => InPointBand(r.entry.last_changed, window.start_utc)

\* C11: the history text of the prompt is never the empty string.  It is the
\* sentinel when no entity was identified, when the fetch result is empty (or the
\* fetch failed) and when no record of the result is kept; otherwise it is not the
\* sentinel and has at least one rendered line.
C11_HistoryTextNeverEmpty ==
    pc \in {"generate", "post"} =>
        /\ prompt.history # EmptyText
        /\ entities = <<>> => prompt.history = NoHistoryText
        /\ raw_history = <<>> => prompt.history = NoHistoryText
        /\ (\A r \in HistoryRecords : ~Kept(r)) => prompt.history = NoHistoryText
        /\ (\E r \in HistoryRecords : Kept(r)) =>
             /\ ~prompt.history.sentinel
             /\ Len(prompt.history.lines) >= 1
             /\ \A k \in 1..Len(prompt.history.lines) :
                  \E r \in HistoryRecords :
                      /\ Kept(r)
                      /\ prompt.history.lines[k] =
                             RenderLine(r.eid, r.entry, window.mode, timezone)

\* The fetch returned records, none was kept, and the prompt got the sentinel.
C11_Witness ==
    /\ pc = "generate"
    /\ HistoryRecords # {}
    /\ \A r \in HistoryRecords : ~Kept(r)
    /\ prompt.history = NoHistoryText

\* ---- C12
\* The category signal: the utterance holds a category keyword and the entry's
\* device class or id matches a type the keyword maps to.
CategorySignal(s, text) ==
    FoundTypes(text) # <<>> /\ IsMatch(s, FoundTypes(text))

\* The lexical signal: a word of the utterance longer than 3 characters is a
\* substring of the entry's id or friendly name.
LexicalSignal(s, text) == NameMatch(s, UserFilterWords(text))

\* C12: the two signals are combined with OR: every entry of the snapshot for which
\* either signal fires is a candidate (seen where the limit of 15 cuts nothing),
\* also when the utterance carries both a category keyword and a long word.
C12_SignalsCombinedWithOr ==
    (pc = "scorer_done" /\ Len(all_states) <= MaxRelevant) =>
        \A i \in 1..Len(all_states) :
            (CategorySignal(all_states[i], user_input)
                \/ LexicalSignal(all_states[i], user_input)) =>
                    \E k \in 1..Len(entities) : entities[k] = all_states[i].entity_id

\* ---- C13
\* C13: on a fatal startup failure (the options file cannot be read, or it lacks
\* the Gemini API key) main exits with a non-zero status and never reaches the
\* startup read of the prompt entity or the polling loop.
C13_FatalStartupExits ==
    options \in {"unreadable", "no_api_key"} => pc \in {"load_config", "exit_1"}

\* ---- C14
\* C14: after add_message stored n turns, the context read with the default limit
\* is exactly the min(n, limit) most recent turns, oldest of them first, and that is
\* the order of the memory text of the prompt.
C14_ContextIsLastTurnsInOrder ==
    pc = "memory_read" =>
        LET n == Len(memory)
            m == IF n < ContextLimit THEN n ELSE ContextLimit
        IN /\ Len(prompt.memory) = m
           /\ \A i \in 1..m : prompt.memory[i] = memory[n - m + i]

\* More turns were stored than the limit, by both roles, and the context was read.
C14_Witness ==
    /\ pc = "memory_read"
    /\ Len(memory) > ContextLimit
    /\ Len(prompt.memory) = ContextLimit
    /\ prompt.memory[1] = memory[Len(memory) - ContextLimit + 1]
    /\ \E i, j \in 1..Len(prompt.memory) : prompt.memory[i].role # prompt.memory[j].role

\* ---- C15
\* The lines of the kept records of one entity's array, oldest first.
KeptLinesOf(item) ==
    LET eid == item[1].entity_id
        KeptEntry(e) == Kept([eid |-> eid, entry |-> e])
        kept == SelectSeq(item, KeptEntry)
    IN [k \in 1..Len(kept) |-> RenderLine(eid, kept[k], window.mode, timezone)]

\* C15: the cap on rendered lines is per entity and keeps the entity's most recent
\* lines: whatever the other entities returned, the history text holds, for every
\* entity with a kept record, its most recent kept records up to the cap.
C15_CapIsPerEntity ==
    pc = "summarizer_done" =>
        \A i \in 1..Len(raw_history) :
            raw_history[i] # <<>> =>
                LET own == KeptLinesOf(raw_history[i])
                    from == IF Len(own) > MaxHistoryLines
                            THEN Len(own) - MaxHistoryLines + 1 ELSE 1
                IN \A k \in from..Len(own) :
                       \E j \in 1..Len(history_text.lines) : history_text.lines[j] = own[k]

\* ---- C16
\* The states the platform reports for an entity it has no value for.
NoValueStates == {Chars("unknown"), Chars("unavailable")}

\* C16: no record whose state is "unknown" or "unavailable" is rendered in the
\* history text, in POINT mode and in the other modes alike.
C16_NoValueRecordsDropped ==
    PastHistory =>
        \A r \in HistoryRecords : r.entry.state \in NoValueStates => ~Rendered(r)

\* ---- C17
\* The number of rows of the log with the role.
Turns(rows, role) ==
    LET HasRole(m) == m.role = role
    IN Len(SelectSeq(rows, HasRole))

\* C17: the log grows by one row at a time.  A user row is the command of the turn
\* and is stored before the turn made any remote call; an assistant row is stored
\* only by the step whose model call succeeded, is the reply of that call and
\* follows the user row of the same turn; a failed model call stores nothing, so
\* the log then ends with the user row.  The log never holds more assistant rows
\* than user rows.
C17_LogOrderAndCounts ==
    [][/\ memory' # memory =>
            /\ Len(memory') = Len(memory) + 1
            /\ SubSeq(memory', 1, Len(memory)) = memory
            /\ Last(memory').role \in {"user", "assistant"}
            /\ Last(memory').role = "user" =>
                 /\ pc = "process"
                 /\ requests = <<>> /\ requests' = <<>>
                 /\ Last(memory').content = user_input
            /\ Last(memory').role = "assistant" =>
                 /\ pc = "generate"
                 /\ Last(requests').api = "gemini"
                 /\ Last(requests').status = 200
                 /\ Last(memory').content = reply'
                 /\ Last(memory) = [role |-> "user", content |-> user_input]
       /\ (pc = "generate" /\ ModelCallFailed') =>
            /\ memory' = memory
            /\ Last(memory).role = "user"
       /\ Turns(memory', "assistant") <= Turns(memory', "user")]_vars

\* A turn whose model call failed is over: the log ends with its user row, and an
\* earlier turn left a user row and an assistant row.
C17_Witness ==
    /\ pc = "poll"
    /\ Len(memory) = 3
    /\ memory[2].role = "assistant"
    /\ Last(memory).role = "user"
    /\ Len(post_calls) = 2
    /\ StartsWith(Last(post_calls).text, ErrorPrefix)

\* ---- C18
\* C18: the value the prompt entity holds when the add-on starts is not processed
\* until the value was changed, also when reads of the entity fail (fetch_state
\* returning "") at startup or between polls: as long as nobody changed the
\* entity, process was not invoked.
C18_StartupValueNotProcessed ==
    changes = 0 => processed = <<>>

\* ---- C19
\* The loop is inside a call of process or about to post its reply.
InTurn == pc \notin {"load_config", "exit_1", "start", "poll", "loop_error"}

\* C19: a trigger is processed at most once.  process is invoked at most once for
\* each value the prompt entity takes (no two invocations without a change of the
\* entity between them), whether the invocation returned or raised; last_command
\* is the command when process is called; at most one jarvis_response is posted
\* for each invocation.
C19_TriggerProcessedOnce ==
    /\ Len(triggered_at) = Len(processed)
    /\ \A i, j \in 1..Len(triggered_at) : i < j => triggered_at[i] < triggered_at[j]
    /\ (InTurn \/ pc = "loop_error") =>
         /\ processed # <<>>
         /\ last_command = Last(processed)
         /\ Len(post_calls) < Len(processed)
    /\ Len(post_calls) <= Len(processed)

\* The processing of a command raised, the loop polled again (a read that failed)
\* and the command, still the value of the entity, was not processed again.
C19_Witness ==
    /\ pc = "poll"
    /\ Len(processed) = 1
    /\ post_calls = <<>>
    /\ user_input = <<>>
    /\ prompt_value = Last(processed)
    /\ last_command = prompt_value

\* ---- C20
\* The place of a remote call in a turn.
Rank(op) ==
    CASE op = "states" -> 1
      [] op = "history" -> 2
      [] op = "state" -> 3
      [] op = "generate_content" -> 4

\* The number of remote calls of the current turn with the op.
Calls(op) ==
    LET IsOp(r) == r.op = op
    IN Len(SelectSeq(requests, IsOp))

\* C20: the remote calls of a turn are ordered and bounded: one read of all states,
\* then the history requests (at most two, and none when no entity was identified),
\* then one state read for each identified entity in the order of entities (at
\* most 15), then one model call.  With no entity identified there is neither a
\* history request nor a state read and the live values of the prompt are empty.
C20_RemoteCallsBoundedAndOrdered ==
    /\ \A i, j \in 1..Len(requests) :
         i < j => Rank(requests[i].op) <= Rank(requests[j].op)
    /\ Calls("states") <= 1
    /\ Calls("history") <= 2
    /\ Calls("generate_content") <= 1
    /\ Calls("state") = Len(current_states)
    /\ Len(current_states) <= Len(entities)
    /\ Len(entities) <= MaxRelevant
    /\ \A i \in 1..Len(current_states) : current_states[i].eid = entities[i]
    /\ entities = <<>> => Calls("history") = 0 /\ Calls("state") = 0
    /\ pc \in {"generate", "post"} =>
         /\ Calls("states") = 1
         /\ entities # <<>> => Calls("history") >= 1
         /\ Calls("state") = Len(entities)
         /\ prompt.live = current_states
         /\ entities = <<>> => prompt.live = <<>>
    /\ pc = "generate" => Calls("generate_content") = 0
    /\ pc = "post" => Calls("generate_content") = 1

\* A turn with two identified entities made all its calls: the read of all states,
\* two history requests, two state reads and the model call.
C20_Witness ==
    /\ pc = "post"
    /\ Len(entities) = 2
    /\ Len(requests) = 6
    /\ Calls("history") = 2
    /\ Calls("state") = 2

====
